---- MODULE Spec2Model ----
(***************************************************************************)
(* Retrieval-and-answering pipeline of the TDS virtual teaching assistant: *)
(* the keyword-backed composer (ai_assistant_simple.py) behind the HTTP    *)
(* handler (api.py), the vector-backed composer (ai_assistant.py) and the  *)
(* vector store (vector_store.py).                                         *)
(*                                                                         *)
(* Python strings are TLA+ strings; TLC evaluates Len, \o and SubSeq on    *)
(* them, and the string functions of the code (lower, split, strip, in,    *)
(* count, join, slicing) are defined from those three.                     *)
(***************************************************************************)
EXTENDS Integers, Sequences, FiniteSets, TLC

\* ------------------------------------------------------------------ bounds

\* Number of scraped pages the corpus collaborator may hold.
MaxDocs == 4

\* ----------------------------------------------------------- Python strings

Min(a, b) == IF a < b THEN a ELSE b


\* s[i] of Python, 1-based.
Ch(s, i) == SubSeq(s, i, i)

\* s[:n]
Take(s, n) == SubSeq(s, 1, Min(n, Len(s)))

\* s[n:] (n characters dropped)

LowerChar(c) ==
  CASE c = "A" -> "a" [] c = "B" -> "b" [] c = "C" -> "c" [] c = "D" -> "d"
    [] c = "E" -> "e" [] c = "F" -> "f" [] c = "G" -> "g" [] c = "H" -> "h"
    [] c = "I" -> "i" [] c = "J" -> "j" [] c = "K" -> "k" [] c = "L" -> "l"
    [] c = "M" -> "m" [] c = "N" -> "n" [] c = "O" -> "o" [] c = "P" -> "p"
    [] c = "Q" -> "q" [] c = "R" -> "r" [] c = "S" -> "s" [] c = "T" -> "t"
    [] c = "U" -> "u" [] c = "V" -> "v" [] c = "W" -> "w" [] c = "X" -> "x"
    [] c = "Y" -> "y" [] c = "Z" -> "z" [] OTHER -> c

\* str.lower(), character by character (halving keeps the recursion shallow).
RECURSIVE Lower(_)
Lower(s) ==
  IF Len(s) = 0 THEN ""
  ELSE IF Len(s) = 1 THEN LowerChar(s)
  ELSE LET h == Len(s) \div 2
       IN Lower(SubSeq(s, 1, h)) \o Lower(SubSeq(s, h + 1, Len(s)))

IsSpace(c) == c \in {" ", "\t", "\n", "\r"}

\* sub in s
Contains(s, sub) ==
  \E i \in 0..(Len(s) - Len(sub)) : SubSeq(s, i + 1, i + Len(sub)) = sub

\* Positions p >= from at which word starts in text.
Occurrences(text, word, from) ==
  {p \in from..(Len(text) - Len(word) + 1) :
     SubSeq(text, p, p + Len(word) - 1) = word}

SetMin(S) == CHOOSE x \in S : \A y \in S : x <= y

SetMax(S) == CHOOSE x \in S : \A y \in S : y <= x

\* text.count(word) from position `from`: non-overlapping, left to right.
RECURSIVE CountFrom(_, _, _)
RECURSIVE CountNext(_, _, _)
CountNext(text, word, occ) ==
  IF occ = {} THEN 0 ELSE 1 + CountFrom(text, word, SetMin(occ) + Len(word))

CountFrom(text, word, from) == CountNext(text, word, Occurrences(text, word, from))

Count(text, word) == CountFrom(text, word, 1)

StripTo(s, keep) == IF keep = {} THEN "" ELSE SubSeq(s, SetMin(keep), SetMax(keep))

\* s.strip()
Strip(s) == StripTo(s, {i \in 1..Len(s) : ~IsSpace(Ch(s, i))})

\* s.split(): the maximal runs of non-whitespace, in order.
RECURSIVE SplitFrom(_, _)
RECURSIVE WordTo(_, _, _)
WordTo(s, b, e) == <<SubSeq(s, b, e - 1)>> \o SplitFrom(s, e)

WordAt(s, b) ==
  WordTo(s, b, SetMin({i \in b..(Len(s) + 1) : i > Len(s) \/ IsSpace(Ch(s, i))}))

WordsAfter(s, starts) == IF starts = {} THEN <<>> ELSE WordAt(s, SetMin(starts))

SplitFrom(s, from) == WordsAfter(s, {i \in from..Len(s) : ~IsSpace(Ch(s, i))})

Split(s) == SplitFrom(s, 1)

\* sep.join(parts)
RECURSIVE Join(_, _)
Join(parts, sep) ==
  IF Len(parts) = 0 THEN ""
  ELSE IF Len(parts) = 1 THEN parts[1]
  ELSE parts[1] \o sep \o Join(Tail(parts), sep)

\* str(i) for the small numbers the model prints.
Digits == <<"0", "1", "2", "3", "4", "5", "6", "7", "8", "9">>

Str(i) == IF i < 10 THEN Digits[i + 1] ELSE Digits[(i \div 10) + 1] \o Digits[(i % 10) + 1]

\* s followed by filler up to n characters.
RECURSIVE Pad(_, _)
Pad(s, n) ==
  IF Len(s) >= n THEN s
  ELSE IF 2 * Len(s) <= n /\ Len(s) > 40 THEN Pad(s \o s, n)
  ELSE Pad(s \o ".", n)

\* ------------------------------------------------------- the document corpus

\* The pages the scrapers know, in the order of their URL lists: page p is
\* one of five kinds of page, under a URL of its own.
Template(p) == ((p - 1) % 5) + 1

page_url(p) == "https://tds.example/p" \o Str(p)

TemplateTitle ==
  <<"Docker Guidelines", "Podman Notes", "GA4 Dashboard", "Docker Setup", "Podman Exam">>

\* The bodies: 250, 42, 520, exactly 200 and 201 characters long.
TemplateContent ==
  <<Pad("Use Docker for the project. Podman is also fine", 250),
    "Podman works like docker without a daemon.",
    Pad("The dashboard (it runs in docker) shows 110 for bonus marks.", 520),
    Pad("Install docker first", 200),
    Pad("The exam allows podman", 201)>>

page_title(p) == TemplateTitle[Template(p)]

page_content(p) == TemplateContent[Template(p)]

Pages == 1..MaxDocs

\* ScrapedContent.query.all(): the rows in primary-key order; row i holds the
\* i-th page inserted.
Rows(table) == [i \in 1..Len(table) |-> [id |-> i, page |-> table[i]]]

\* ------------------------------------------------------------ request inputs

Q_GA4 == "How does the GA4 dashboard show bonus marks?"

Q_Docker == "Should I use Docker or Podman"

Q_Unknown == "zzz"

Questions == {Q_GA4, Q_Docker, Q_Unknown}

\* Questions put to rank_and_filter_links and simple_search directly: the
\* third repeats a word and mixes case.
UnitQuestions == {Q_GA4, Q_Docker, "docker DOCKER setup guide", Q_Unknown}

\* What a client may send as "question": blank, padded or plain text.
RawQuestions == {"", "  \n ", Q_GA4, " " \o Q_Docker \o "  ", Q_Unknown}

\* "image" of a request: "" stands for an absent (or empty) value.
Images == {"", "aGVsbG8=", "aGVsbG8"}

\* Texts the generation capability may return.
GenAnswers ==
  {"You can use Docker or Podman, see Docker Guidelines.",
   "Check the dashboard at https://tds.example/p3 for the bonus."}

QuotaErrors ==
  {"Error code: 429 - You exceeded your current quota",
   "INSUFFICIENT balance for this request"}

OtherErrors == {"Connection error."}

\* Outcomes of openai_client.chat.completions.create and of reading
\* response.choices[0].message.content (a string or None).
GenOutcomes ==
  [kind : {"ok"}, text : GenAnswers]
    \cup {[kind |-> "none", text |-> ""]}
    \cup [kind : {"error"}, text : QuotaErrors \cup OtherErrors]

\* The environment of one answer_question call: whether the first and the
\* second retrieval raise, and what the generation call does.
Envs == [sfail1 : BOOLEAN, gen : GenOutcomes, sfail2 : BOOLEAN]

\* The environments that differ in something a call with or without a client
\* can meet: no generation call is made without a client, and a second
\* retrieval follows a quota error only.
EnvsFor(client) ==
  {e \in Envs :
     /\ ~client => e.gen = [kind |-> "none", text |-> ""]
     /\ e.sfail2 => (client /\ e.gen.text \in QuotaErrors)}

\* ------------------------------------------------------------ Python values

\* A value that is a str or None (AnswerResult's answer).
PyStr(s) == [type |-> "str", val |-> s]

PyNone == [type |-> "NoneType", val |-> ""]

Call(op, kind, text) == [op |-> op, kind |-> kind, text |-> text]

\* --------------------------------------------------- keyword search engine

\* The lexicon of exact phrases and their bonus weights.
PhraseBonus ==
  <<[phrase |-> "gpt-3.5-turbo", weight |-> 20],
    [phrase |-> "gpt-4o-mini", weight |-> 15],
    [phrase |-> "ga4", weight |-> 20],
    [phrase |-> "dashboard", weight |-> 15],
    [phrase |-> "bonus", weight |-> 15],
    [phrase |-> "docker", weight |-> 20],
    [phrase |-> "podman", weight |-> 20],
    [phrase |-> "sep 2025", weight |-> 20],
    [phrase |-> "exam", weight |-> 15]>>

RECURSIVE SumSeq(_)
SumSeq(s) == IF Len(s) = 0 THEN 0 ELSE Head(s) + SumSeq(Tail(s))

\* set(words): the distinct elements of s, in order of first occurrence.
RECURSIVE Dedup(_)
DedupAdd(rest, x) ==
  IF \E i \in 1..Len(rest) : rest[i] = x THEN rest ELSE Append(rest, x)

Dedup(s) ==
  IF Len(s) = 0 THEN <<>> ELSE DedupAdd(Dedup(SubSeq(s, 1, Len(s) - 1)), s[Len(s)])

\* The phrase bonuses: a phrase counts when the question and the text hold it.
bonus_points(q, text) ==
  [i \in 1..Len(PhraseBonus) |->
     IF Contains(q, PhraseBonus[i].phrase) /\ Contains(text, PhraseBonus[i].phrase)
     THEN PhraseBonus[i].weight ELSE 0]

\* word_points skipping the words of 3 characters too (> 3 for > 2).
word_points_long(question_words, text) ==
  [i \in 1..Len(question_words) |->
     IF Len(question_words[i]) > 3 THEN Count(text, question_words[i]) ELSE 0]

\* for word in question_words: if len(word) > 2: score += text.count(word)
word_points(question_words, text) ==
  [i \in 1..Len(question_words) |->
     IF Len(question_words[i]) > 2 THEN Count(text, question_words[i]) ELSE 0]

\* The score simple_search gives one document.
score_document(question, page) ==
  SumSeq(bonus_points(Lower(question),
                      Lower(page_title(page) \o " " \o page_content(page))))
    + SumSeq(word_points(Dedup(Split(Lower(question))),
                         Lower(page_title(page) \o " " \o page_content(page))))

\* score_document for the questions and the kinds of page of the model,
\* computed once.
ScoreTable ==
  [question \in Questions \cup UnitQuestions |->
     [t \in 1..5 |-> score_document(question, t)]]

document_score(question, page) ==
  IF question \in Questions \cup UnitQuestions THEN ScoreTable[question][Template(page)]
  ELSE score_document(question, page)

\* list.sort(key=score, reverse=True): descending, stable.
RECURSIVE SortByScore(_)
SortFrom(s, best) ==
  <<s[best]>> \o SortByScore(SubSeq(s, 1, best - 1) \o SubSeq(s, best + 1, Len(s)))

\* SortByScore putting the later of two equal scores first (an ascending
\* sort, reversed).
SortByScoreTiesReversed(s) ==
  IF Len(s) = 0 THEN <<>>
  ELSE SortFrom(s, CHOOSE i \in 1..Len(s) :
                     /\ \A j \in 1..Len(s) : s[j].score <= s[i].score
                     /\ \A j \in (i + 1)..Len(s) : s[j].score < s[i].score)

SortByScore(s) ==
  IF Len(s) = 0 THEN <<>>
  ELSE SortFrom(s, CHOOSE i \in 1..Len(s) :
                     /\ \A j \in 1..Len(s) : s[j].score <= s[i].score
                     /\ \A j \in 1..(i - 1) : s[j].score < s[i].score)

\* s[:n] of a list
FirstN(s, n) == SubSeq(s, 1, Min(n, Len(s)))

\* HasScore keeping the documents that score 0 (>= for >).
HasScoreOrZero(r) == r.score >= 0

\* if score > 0
HasScore(r) == r.score > 0

\* The rows with their scores, in row order.
scored_rows(question, rows) ==
  [i \in 1..Len(rows) |->
     [id |-> rows[i].id, page |-> rows[i].page,
      score |-> document_score(question, rows[i].page)]]

\* simple_search(question, top_k) over the table's rows; failed: the database
\* read raised.
simple_search(question, top_k, rows, failed) ==
  IF failed THEN <<>>
  ELSE IF Len(rows) = 0 THEN <<>>
  ELSE FirstN(SortByScore(SelectSeq(scored_rows(question, rows), HasScore)), top_k)

\* SearchCall as if the composer asked the vector store.
SearchCallVector(failed) == Call("vector_search", IF failed THEN "raised" ELSE "ok", "")

\* The composer's call of simple_search and how it ended.
SearchCall(failed) == Call("simple_search", IF failed THEN "raised" ELSE "ok", "")

\* ------------------------------------------------------------- fallback path

NothingFound ==
  "I couldn't find specific information about your question in the course materials. Please try rephrasing your question or check the course resources directly."

ImageNote ==
  "Note: I can see you've included an image, but I need AI functionality to analyze it. Please describe what's in the image so I can help better."

FallbackHeader == "Based on the course materials I found:\n"

SnippetLimit == 200

\* content_snippet cutting at >= 200 characters.
content_snippet_ge(text) ==
  IF Len(text) >= SnippetLimit THEN Take(text, SnippetLimit) \o "..." ELSE text

\* result['text'][:200] + "..." if len(result['text']) > 200 else result['text']
content_snippet(text) ==
  IF Len(text) > SnippetLimit THEN Take(text, SnippetLimit) \o "..." ELSE text

Link(page) == [url |-> page_url(page), text |-> page_title(page)]

FallbackTopK == 3

FallbackShown == 3

RECURSIVE Flatten(_)
Flatten(s) == IF Len(s) = 0 THEN <<>> ELSE Head(s) \o Flatten(Tail(s))

\* The three lines the loop appends for the i-th hit.
excerpt_lines(i, page) ==
  <<Str(i) \o ". From '" \o page_title(page) \o "':",
    "   " \o content_snippet(page_content(page)),
    "">>

answer_parts(shown, image_base64) ==
  <<FallbackHeader>>
    \o Flatten([i \in 1..Len(shown) |-> excerpt_lines(i, shown[i].page)])
    \o (IF image_base64 # "" THEN <<ImageNote>> ELSE <<>>)

fallback_result(search_results, image_base64) ==
  IF Len(search_results) = 0
  THEN [answer |-> PyStr(NothingFound), links |-> <<>>]
  ELSE [answer |-> PyStr(Join(answer_parts(FirstN(search_results, FallbackShown),
                                           image_base64), "\n")),
        links |-> [i \in 1..Min(FallbackShown, Len(search_results)) |->
                     Link(search_results[i].page)]]

\* generate_fallback_answer(question, image_base64)
generate_fallback_answer(question, image_base64, rows, failed) ==
  [result |-> fallback_result(simple_search(question, FallbackTopK, rows, failed),
                              image_base64),
   calls |-> <<Call("generate_fallback_answer", "enter", ""), SearchCall(failed)>>]

\* --------------------------------------------------------------- link ranker

\* title_points counting the words of 3 characters too (> 2 for > 3).
title_points_short(question_words, title_lower) ==
  [i \in 1..Len(question_words) |->
     IF Len(question_words[i]) > 2 /\ Contains(title_lower, question_words[i])
     THEN 1 ELSE 0]

\* if len(word) > 3 and word in title_lower: score += 1
title_points(question_words, title_lower) ==
  [i \in 1..Len(question_words) |->
     IF Len(question_words[i]) > 3 /\ Contains(title_lower, question_words[i])
     THEN 1 ELSE 0]

\* if link['url'] in answer or link['text'].lower() in answer_lower: score += 2
mention_points(link, answer) ==
  IF Contains(answer, link.url) \/ Contains(Lower(answer), Lower(link.text))
  THEN 2 ELSE 0

\* The score rank_and_filter_links gives one candidate link.
link_score(link, question, answer) ==
  SumSeq(title_points(Split(Lower(question)), Lower(link.text)))
    + mention_points(link, answer)

\* keep_link letting a link of score 0 through (>= for >).
keep_link_ge(r) == r.score >= 0

\* [link for link, score in scored_links if score > 0]
keep_link(r) == r.score > 0

LinksOf(scored) == [i \in 1..Len(scored) |-> scored[i].link]

\* scored_links before the sort: the candidates with their scores, in input
\* order.
scored_links(links, question, answer) ==
  [i \in 1..Len(links) |->
     [link |-> links[i], score |-> link_score(links[i], question, answer)]]

\* rank_and_filter_links(links, question, answer), answer a string.
rank_and_filter_links(links, question, answer) ==
  IF Len(links) = 0 THEN <<>>
  ELSE LinksOf(SelectSeq(SortByScore(scored_links(links, question, answer)), keep_link))

\* ------------------------------------------------- keyword-backed composer

SearchTopK == 5

MaxLinks == 3

\* top_links without the slice.
top_links_all(final_links) == final_links

\* final_links[:3]
top_links(final_links) == FirstN(final_links, MaxLinks)

\* is_quota_error without .lower(): the match made case-sensitive.
is_quota_error_cased(message) ==
  Contains(message, "quota") \/ Contains(message, "insufficient")

\* is_quota_error with a condition that is always truthy
\* ("quota" in s or "insufficient").
is_quota_error_truthy(message) == Contains(Lower(message), "quota") \/ TRUE

\* "quota" in str(e).lower() or "insufficient" in str(e).lower()
is_quota_error(message) ==
  Contains(Lower(message), "quota") \/ Contains(Lower(message), "insufficient")

ErrorAnswer(message) ==
  "Sorry, I encountered an error while processing your question: " \o message

NoResponseText == "I couldn't generate a response."

\* if result['score'] > 0
is_relevant(r) == r.score > 0

\* relevant_links: url and title of the relevant hits, in hit order.
links_of_hits(hits) == [i \in 1..Len(hits) |-> Link(hits[i].page)]

\* response.choices[0].message.content or "I couldn't generate a response."
content_or_default(gen) ==
  IF gen.kind = "none" \/ gen.text = "" THEN NoResponseText ELSE gen.text

\* The return after a successful generation call.
generated_result(relevant_links, question, answer) ==
  [answer |-> PyStr(answer),
   links |-> top_links(rank_and_filter_links(relevant_links, question, answer))]

After(calls, r) == [result |-> r.result, calls |-> calls \o r.calls]

\* simple_on_error trying the generation call once more before it gives up.
simple_on_error_retry(question, image_base64, rows, env, calls) ==
  IF Contains(Lower(env.gen.text), "quota") \/ Contains(Lower(env.gen.text), "insufficient")
  THEN After(Append(calls, Call("generate", "error", env.gen.text)),
             generate_fallback_answer(question, image_base64, rows, env.sfail2))
  ELSE [result |-> [answer |-> PyStr(ErrorAnswer(env.gen.text)), links |-> <<>>],
        calls |-> Append(calls, Call("generate", "error", env.gen.text))]

\* The except branch of answer_question: the fallback on a quota error, the
\* error answer otherwise.
simple_on_error(question, image_base64, rows, env, calls) ==
  IF is_quota_error(env.gen.text)
  THEN After(calls, generate_fallback_answer(question, image_base64, rows, env.sfail2))
  ELSE [result |-> [answer |-> PyStr(ErrorAnswer(env.gen.text)), links |-> <<>>],
        calls |-> calls]

\* simple_without_client answering as the vector-backed composer does.
simple_without_client_error(question, image_base64, rows, env) ==
  [result |-> [answer |-> PyStr("OpenAI API key not configured. Please set OPENAI_API_KEY environment variable."),
               links |-> <<>>],
   calls |-> <<>>]

\* if not openai_client: return generate_fallback_answer(question, image_base64)
simple_without_client(question, image_base64, rows, env) ==
  generate_fallback_answer(question, image_base64, rows, env.sfail1)

\* answer_question(question, image_base64) of ai_assistant_simple.py.
\* client: openai_client is not None; env: what retrieval and generation do.
simple_answer_question(question, image_base64, rows, client, env) ==
  IF ~client THEN simple_without_client(question, image_base64, rows, env)
  ELSE IF env.gen.kind = "error"
  THEN simple_on_error(question, image_base64, rows, env,
                       <<SearchCall(env.sfail1), Call("generate", "error", env.gen.text)>>)
  ELSE [result |-> generated_result(
                     links_of_hits(SelectSeq(
                       simple_search(question, SearchTopK, rows, env.sfail1), is_relevant)),
                     question, content_or_default(env.gen)),
        calls |-> <<SearchCall(env.sfail1), Call("generate", env.gen.kind, env.gen.text)>>]

\* -------------------------------------------------------------- HTTP handler

\* The JSON body of a request. json: "none" (no body, or an empty object),
\* "invalid" (get_json raises) or "dict"; qkind: the "question" key is
\* "absent", "null" or a "str".
RequestData ==
  {[json |-> "none", qkind |-> "absent", question |-> "", image |-> ""],
   [json |-> "invalid", qkind |-> "absent", question |-> "", image |-> ""]}
    \cup [json : {"dict"}, qkind : {"str"}, question : RawQuestions, image : Images]
    \cup [json : {"dict"}, qkind : {"absent"}, question : {""}, image : Images \ {""}]
    \cup [json : {"dict"}, qkind : {"null"}, question : {""}, image : Images]

\* base64.b64decode(image) raises on incorrect padding.
b64decode_ok(image) == Len(image) % 4 = 0

\* stripped_question without .strip().
unstripped_question(raw) == raw

\* data.get('question', '').strip()
stripped_question(raw) == Strip(raw)

NoResult == [answer |-> PyNone, links |-> <<>>]

HttpError(status, message) ==
  [status |-> status, error |-> message, has_result |-> FALSE,
   question |-> "", image |-> "", result |-> NoResult, calls |-> <<>>]

HttpOk(question, image_base64, r) ==
  [status |-> 200, error |-> "", has_result |-> TRUE,
   question |-> question, image |-> image_base64,
   result |-> r.result, calls |-> r.calls]

AndThen(r, call) == [result |-> r.result, calls |-> Append(r.calls, call)]

\* handle_question() from the stripped question on. The QuestionAnswer record
\* is written last, and a failure to write it is logged.
handle_stripped(question, image_base64, rows, client, env) ==
  IF question = "" THEN HttpError(400, "Question is required")
  ELSE IF image_base64 # "" /\ ~b64decode_ok(image_base64)
  THEN HttpError(400, "Invalid base64 image data")
  ELSE HttpOk(question, image_base64,
              AndThen(simple_answer_question(question, image_base64, rows, client, env),
                      Call("db_save", "attempted", "")))

\* handle_question(): the response, and the calls made on the way.
handle_question(data, rows, client, env) ==
  IF data.json = "invalid"
  THEN HttpError(500, "Internal server error: 400 Bad Request")
  ELSE IF data.json = "none" THEN HttpError(400, "No JSON data provided")
  ELSE IF data.qkind = "null"
  THEN HttpError(500, "Internal server error: 'NoneType' object has no attribute 'strip'")
  ELSE handle_stripped(stripped_question(data.question), data.image, rows, client, env)

\* -------------------------------------------------------------- vector store

TemplateText == [t \in 1..5 |-> TemplateTitle[t] \o "\n" \o TemplateContent[t]]

\* The text create_index and add_document embed for a page.
document_text(page) == TemplateText[Template(page)]

\* model.encode + normalize_L2: the unit vector of a text, the same for the
\* same text.
encode(text) == [emb |-> text]

\* Inner product of a query's and a document's unit vector, in hundredths,
\* by kind of page.
SimilarityTable(query) ==
  CASE query = Q_Docker -> <<80, 30, 31, 80, 45>>
    [] query = Q_GA4 -> <<10, -5, 90, 10, 0>>
    [] OTHER -> <<30, 12, 5, 5, 5>>

inner_product(query_vec, doc_vec) ==
  IF query_vec.emb = doc_vec.emb THEN 100
  ELSE IF \E t \in 1..5 : TemplateText[t] = doc_vec.emb
  THEN SimilarityTable(query_vec.emb)[CHOOSE t \in 1..5 : TemplateText[t] = doc_vec.emb]
  ELSE 0

\* self.index: None, or a flat inner-product index over its vectors.
NoIndex == [built |-> FALSE, vectors |-> <<>>]

EmptyIndex == [built |-> TRUE, vectors |-> <<>>]

IndexOf(vectors) == [built |-> TRUE, vectors |-> vectors]

NoFile == [exists |-> FALSE, data |-> <<>>]

FileOf(data) == [exists |-> TRUE, data |-> data]

\* The store object and its two files.
NewStore ==
  [index |-> NoIndex, documents |-> <<>>, index_file |-> NoFile, docs_file |-> NoFile]

Snapshot(row) == [id |-> row.id, page |-> row.page]

\* self.documents of create_index: one entry per row, in row order.
snapshots(rows) == [i \in 1..Len(rows) |-> Snapshot(rows[i])]

embeddings_of(rows) == [i \in 1..Len(rows) |-> encode(document_text(rows[i].page))]

\* create_index(): dbfail, the corpus read raises; embed_ok, model.encode works.
create_index(store, rows, embed_ok, dbfail) ==
  IF dbfail THEN [store |-> store, raised |-> TRUE, rebuilt |-> TRUE]
  ELSE IF Len(rows) = 0
  THEN [store |-> [store EXCEPT !.index = EmptyIndex, !.documents = <<>>],
        raised |-> FALSE, rebuilt |-> TRUE]
  ELSE IF ~embed_ok
  THEN [store |-> [store EXCEPT !.documents = snapshots(rows)],
        raised |-> TRUE, rebuilt |-> TRUE]
  ELSE [store |-> [index |-> IndexOf(embeddings_of(rows)),
                   documents |-> snapshots(rows),
                   index_file |-> FileOf(embeddings_of(rows)),
                   docs_file |-> FileOf(snapshots(rows))],
        raised |-> FALSE, rebuilt |-> TRUE]

\* Outcomes of reading the two files.
LoadOutcomes == {"ok", "index_raises", "docs_raises"}

\* load_or_create_index() building from the corpus whatever the files hold.
load_or_create_index_rebuild(store, rows, embed_ok, dbfail, load) ==
  create_index(store, rows, embed_ok, dbfail)

\* load_or_create_index()
load_or_create_index(store, rows, embed_ok, dbfail, load) ==
  IF store.index_file.exists /\ store.docs_file.exists /\ load = "ok"
  THEN [store |-> [store EXCEPT !.index = IndexOf(store.index_file.data),
                                !.documents = store.docs_file.data],
        raised |-> FALSE, rebuilt |-> FALSE]
  ELSE IF store.index_file.exists /\ store.docs_file.exists /\ load = "docs_raises"
  THEN create_index([store EXCEPT !.index = IndexOf(store.index_file.data)],
                    rows, embed_ok, dbfail)
  ELSE create_index(store, rows, embed_ok, dbfail)

\* add_document after `if self.index is None: self.load_or_create_index()`.
loaded_for_add(store, rows, embed_ok, dbfail, load) ==
  IF store.index.built THEN [store |-> store, raised |-> FALSE, rebuilt |-> FALSE]
  ELSE load_or_create_index(store, rows, embed_ok, dbfail, load)

\* index.add(embedding), documents.append(...), and the two files written.
appended(store, row) ==
  [index |-> IndexOf(Append(store.index.vectors, encode(document_text(row.page)))),
   documents |-> Append(store.documents, Snapshot(row)),
   index_file |-> FileOf(Append(store.index.vectors, encode(document_text(row.page)))),
   docs_file |-> FileOf(Append(store.documents, Snapshot(row)))]

\* add_document appending the vector and leaving the documents list alone.
add_to_loaded_index_only(loaded, row, embed_ok) ==
  IF loaded.raised \/ ~embed_ok
  THEN [store |-> loaded.store, raised |-> TRUE, rebuilt |-> loaded.rebuilt]
  ELSE [store |-> [appended(loaded.store, row) EXCEPT
                     !.documents = loaded.store.documents,
                     !.docs_file = FileOf(loaded.store.documents)],
        raised |-> FALSE, rebuilt |-> loaded.rebuilt]

\* add_document from the embedding of the text on.
add_to_loaded(loaded, row, embed_ok) ==
  IF loaded.raised \/ ~embed_ok
  THEN [store |-> loaded.store, raised |-> TRUE, rebuilt |-> loaded.rebuilt]
  ELSE [store |-> appended(loaded.store, row), raised |-> FALSE,
        rebuilt |-> loaded.rebuilt]

\* add_document(content), content being the row `row` of the table.
add_document(store, row, rows, embed_ok, dbfail, load) ==
  add_to_loaded(loaded_for_add(store, rows, embed_ok, dbfail, load), row, embed_ok)

\* VectorStore() in a new process: nothing in memory, the files as they are.
restarted(store) == [NewStore EXCEPT !.index_file = store.index_file,
                                     !.docs_file = store.docs_file]

\* The positions of an index, best inner product first, equal scores by
\* position.
RECURSIVE BestFirst(_, _)
BestThen(scores, left, best) ==
  <<[idx |-> best, score |-> scores[best]]>> \o BestFirst(scores, left \ {best})

BestFirst(scores, left) ==
  IF left = {} THEN <<>>
  ELSE BestThen(scores, left,
                CHOOSE i \in left :
                  \A j \in left : scores[j] < scores[i] \/ (scores[j] = scores[i] /\ i <= j))

PadHits(ranked, k) ==
  [i \in 1..k |-> IF i <= Len(ranked) THEN ranked[i] ELSE [idx |-> 0, score |-> -100]]

\* index.search(query, k): k places; 0 (faiss: -1) fills the places the
\* index has no vector for.
index_search(index, query_vec, k) ==
  PadHits(BestFirst([i \in 1..Len(index.vectors) |->
                       inner_product(query_vec, index.vectors[i])],
                    1..Len(index.vectors)),
          k)

EmbeddingError == "embedding model is not available"

IndexError == "list index out of range"

IsValidIndex(h) == h.idx # 0

\* results.append((self.documents[idx], float(score))) for the valid places.
pair_hits(valid, documents) ==
  IF \E i \in 1..Len(valid) : valid[i].idx > Len(documents)
  THEN [raised |-> TRUE, message |-> IndexError, hits |-> <<>>, encoded |-> TRUE]
  ELSE [raised |-> FALSE, message |-> "",
        hits |-> [i \in 1..Len(valid) |->
                    [doc |-> documents[valid[i].idx], score |-> valid[i].score]],
        encoded |-> TRUE]

\* VectorStore.search(query, top_k): the hits, or the exception it raises.
vector_search(store, query, top_k, embed_ok) ==
  IF ~store.index.built \/ Len(store.documents) = 0
  THEN [raised |-> FALSE, message |-> "", hits |-> <<>>, encoded |-> FALSE]
  ELSE IF ~embed_ok
  THEN [raised |-> TRUE, message |-> EmbeddingError, hits |-> <<>>, encoded |-> TRUE]
  ELSE pair_hits(SelectSeq(index_search(store.index, encode(query),
                                        Min(top_k, Len(store.documents))),
                           IsValidIndex),
                 store.documents)

\* --------------------------------------------------- vector-backed composer

ConfigError ==
  "OpenAI API key not configured. Please set OPENAI_API_KEY environment variable."

NoneLowerError == "'NoneType' object has no attribute 'lower'"

VectorTopK == 5

\* score > 0.3, in hundredths
RelevanceThreshold == 30

\* above_threshold letting a similarity of exactly 0.3 through (>= for >).
above_threshold_ge(h) == h.score >= RelevanceThreshold

\* if score > 0.3
above_threshold(h) == h.score > RelevanceThreshold

ContextLimit == 500

\* f"Title: {doc['title']}\nURL: {doc['url']}\nContent: {doc['content'][:500]}..."
context_part(h) ==
  "Title: " \o page_title(h.doc.page) \o "\nURL: " \o page_url(h.doc.page)
    \o "\nContent: " \o Take(page_content(h.doc.page), ContextLimit) \o "..."

context_parts_of(hits) == [i \in 1..Len(hits) |-> context_part(hits[i])]

links_of_docs(hits) == [i \in 1..Len(hits) |-> Link(hits[i].doc.page)]

ErrorResult(message) == [answer |-> PyStr(ErrorAnswer(message)), links |-> <<>>]

\* answer_question of ai_assistant.py after a search that returned.
vector_generate(relevant_links, question, gen) ==
  IF gen.kind = "error" THEN ErrorResult(gen.text)
  ELSE IF gen.kind = "none"
  THEN IF Len(relevant_links) = 0 THEN [answer |-> PyNone, links |-> <<>>]
       ELSE ErrorResult(NoneLowerError)
  ELSE [answer |-> PyStr(gen.text),
        links |-> top_links(rank_and_filter_links(relevant_links, question, gen.text))]

vector_after_search(search, question, gen) ==
  IF search.raised
  THEN [result |-> ErrorResult(search.message),
        calls |-> <<Call("vector_search", "raised", search.message)>>]
  ELSE [result |-> vector_generate(links_of_docs(SelectSeq(search.hits, above_threshold)),
                                   question, gen),
        calls |-> <<Call("vector_search", "ok", ""), Call("generate", gen.kind, gen.text)>>]

\* answer_question(question, image_base64) of ai_assistant.py.
vector_answer_question(question, image_base64, store, client, embed_ok, gen) ==
  IF ~client
  THEN [result |-> [answer |-> PyStr(ConfigError), links |-> <<>>], calls |-> <<>>]
  ELSE vector_after_search(vector_search(store, question, VectorTopK, embed_ok),
                           question, gen)

\* What answer_question of ai_assistant.py holds before it builds the prompt:
\* the hits of the search, and the context entries and link candidates it made
\* of them.
NoBundle == [hits |-> <<>>, context_parts |-> <<>>, relevant_links |-> <<>>]

bundle_of(search) ==
  IF search.raised THEN NoBundle
  ELSE [hits |-> search.hits,
        context_parts |-> context_parts_of(SelectSeq(search.hits, above_threshold)),
        relevant_links |-> links_of_docs(SelectSeq(search.hits, above_threshold))]

vector_bundle(store, question, client, embed_ok) ==
  IF ~client THEN NoBundle
  ELSE bundle_of(vector_search(store, question, VectorTopK, embed_ok))

\* ---------------------------------------------------------------- the state

VARIABLES
  contents,             \* the ScrapedContent table: the pages, in row order
  openai_client,        \* whether OPENAI_API_KEY configured a client
  embedding_available,  \* whether the embedding model answers encode()
  vector_store,         \* the VectorStore object and its two files
  response,             \* the answer being returned to the caller, if any
  writers               \* the calls of add_document under way, by thread

vars == <<contents, openai_client, embedding_available, vector_store, response, writers>>

\* The threads that may call add_document on the one vector_store.
WriterNames == {"w1", "w2"}

\* A thread outside add_document.
NoCall == [pc |-> "idle", row |-> 0]

NoWriters == [w \in WriterNames |-> NoCall]

NoData == [json |-> "none", qkind |-> "absent", question |-> "", image |-> ""]

NoResponse == [via |-> "none", data |-> NoData, http |-> HttpError(0, "")]

Idle == response.via = "none"

Init ==
  /\ contents = <<>>
  /\ openai_client \in BOOLEAN
  /\ embedding_available \in BOOLEAN
  /\ vector_store = NewStore
  /\ response = NoResponse
  /\ writers = NoWriters

\* A scraper pass stores a page it has not stored yet (it walks its URL list
\* in order and skips the pages it cannot fetch).
InsertContent ==
  /\ Idle
  /\ \E p \in Pages :
       /\ \A i \in 1..Len(contents) : contents[i] < p
       /\ contents' = Append(contents, p)
  /\ UNCHANGED <<openai_client, embedding_available, vector_store, response, writers>>

\* The embedding model becomes unavailable, or available again.
SetEmbedding ==
  /\ Idle
  /\ embedding_available' = ~embedding_available
  /\ UNCHANGED <<contents, openai_client, vector_store, response, writers>>

\* initialize_vector_store(): load_or_create_index(), an exception logged.
InitializeVectorStore ==
  /\ Idle
  /\ \E dbfail \in BOOLEAN, load \in LoadOutcomes :
       vector_store' = load_or_create_index(vector_store, Rows(contents),
                                            embedding_available, dbfail, load).store
  /\ UNCHANGED <<contents, openai_client, embedding_available, response, writers>>

\* POST /api/ : handle_question over the keyword-backed composer.
HandleQuestion ==
  /\ Idle
  /\ \E data \in RequestData, env \in EnvsFor(openai_client) :
       response' = [via |-> "api", data |-> data,
                    http |-> handle_question(data, Rows(contents), openai_client, env)]
  /\ UNCHANGED <<contents, openai_client, embedding_available, vector_store, writers>>

\* A call of the vector-backed composer's answer_question.
VectorAnswerQuestion ==
  /\ Idle
  /\ \E question \in Questions, image \in {"", "aGVsbG8="}, gen \in GenOutcomes :
       response' = [via |-> "vector",
                    data |-> [json |-> "call", qkind |-> "str",
                              question |-> question, image |-> image],
                    http |-> HttpOk(question, image,
                                    vector_answer_question(question, image, vector_store,
                                                           openai_client,
                                                           embedding_available, gen)),
                    bundle |-> vector_bundle(vector_store, question, openai_client,
                                             embedding_available)]
  /\ UNCHANGED <<contents, openai_client, embedding_available, vector_store, writers>>

\* The caller takes the response.
Deliver ==
  /\ ~Idle
  /\ response' = NoResponse
  /\ UNCHANGED <<contents, openai_client, embedding_available, vector_store, writers>>

Next ==
  \/ InsertContent
  \/ SetEmbedding
  \/ InitializeVectorStore
  \/ HandleQuestion
  \/ VectorAnswerQuestion
  \/ Deliver

Spec == Init /\ [][Next]_vars

\* --------------------------------------------------------------- properties

Http == response.http

ViaApi == response.via = "api"

ViaVector == response.via = "vector"

\* answer_question returned a result to its caller.
Answered == ~Idle /\ Http.has_result

CallIndexes(op) == {i \in 1..Len(Http.calls) : Http.calls[i].op = op}

HasCall(op) == CallIndexes(op) # {}

FallbackEntered == HasCall("generate_fallback_answer")

\* The generation call was made and returned (a text or None).
Generated ==
  \E i \in CallIndexes("generate") : Http.calls[i].kind \in {"ok", "none"}

\* The generation call was made and raised the message msg.
GenerationFailed(msg) ==
  \E i \in CallIndexes("generate") :
    Http.calls[i].kind = "error" /\ Http.calls[i].text = msg

StartsWith(s, prefix) == Take(s, Len(prefix)) = prefix

\* The last simple_search call of the request raised.
LastKeywordSearchRaised ==
  /\ HasCall("simple_search")
  /\ Http.calls[SetMax(CallIndexes("simple_search"))].kind = "raised"

\* C1: whatever the output path (generated, fallback, nothing found, error),
\* the result of answer_question holds at most 3 links, however many
\* candidate links score above 0.
C1_AtMostThreeLinks == Answered => Len(Http.result.links) <= 3

\* The links the keyword hits of the answered question offer, ranked against
\* the returned answer.
RankedCandidates ==
  rank_and_filter_links(
    links_of_hits(simple_search(Http.question, SearchTopK, Rows(contents), FALSE)),
    Http.question, Http.result.answer.val)

\* A generated answer for which four or more candidates score above 0, and
\* three links returned.
C1_Witness ==
  /\ Answered /\ ViaApi /\ Generated
  /\ Len(Http.result.links) = 3
  /\ ~LastKeywordSearchRaised
  /\ Len(RankedCandidates) >= 4

\* C2: every returned link has a Link Ranker score above 0 for the question
\* and the returned answer text, on the generative and on the fallback path.
C2_LinksScorePositive ==
  Answered =>
    \A i \in 1..Len(Http.result.links) :
      /\ Http.result.answer.type = "str"
      /\ link_score(Http.result.links[i], Http.question, Http.result.answer.val) > 0

\* A fallback answer returning a link whose title shares no word with the
\* question: it scores by its title standing in the answer alone.
C2_Witness ==
  /\ Answered /\ FallbackEntered
  /\ \E i \in 1..Len(Http.result.links) :
       link_score(Http.result.links[i], Http.question, Http.result.answer.val) = 2

\* The generation call was made and raised.
GenerationRaised ==
  \E i \in CallIndexes("generate") : Http.calls[i].kind = "error"

\* A retrieval call of the request raised inside its engine.
RetrievalRaised ==
  \E i \in 1..Len(Http.calls) :
    /\ Http.calls[i].op \in {"simple_search", "vector_search"}
    /\ Http.calls[i].kind = "raised"

AnswerText == Http.result.answer.val

IsErrorAnswer ==
  StartsWith(AnswerText, "Sorry, I encountered an error while processing your question: ")

IsConfigErrorAnswer == StartsWith(AnswerText, "OpenAI API key not configured.")

\* What generate_fallback_answer returns for the answered question and image,
\* its retrieval ending as the request's last keyword retrieval did.
FallbackOfRequest ==
  generate_fallback_answer(Http.question, Http.image, Rows(contents),
                           LastKeywordSearchRaised).result

\* C3: answer_question always returns an object whose answer is a string and
\* whose links are a list, whatever retrieval and generation do.
C3_AnswerIsString ==
  Answered => Http.result.answer.type = "str"

NoSnippetShown ==
  \A i \in 1..Len(contents) :
    ~Contains(AnswerText, Take(page_content(contents[i]), 200))

BlankQuestion ==
  \/ response.data.qkind # "str"
  \/ \A i \in 1..Len(response.data.question) :
       Ch(response.data.question, i) \in {" ", "\t", "\n", "\r"}

\* C7: handle_question answers a request whose question is missing, empty or
\* whitespace-only with an error response, and makes no retrieval, generation
\* or database call for it.
C7_BlankQuestionRejected ==
  (ViaApi /\ BlankQuestion) =>
    /\ Http.status # 200
    /\ Http.error # ""
    /\ ~Http.has_result
    /\ Http.calls = <<>>

\* A whitespace-only question refused, the corpus holding pages.
C7_Witness ==
  /\ ViaApi
  /\ response.data.qkind = "str"
  /\ response.data.question = "  \n "
  /\ Http.status = 400
  /\ Http.error = "Question is required"
  /\ Len(contents) >= 1

C9_RetrievalFailureRecovered ==
  (Answered /\ RetrievalRaised /\ ~GenerationRaised) =>
    /\ ~IsErrorAnswer
    /\ Http.result.links = <<>>

\* The fallback excerpt of the i-th hit.
ExpectedExcerpt(i, title, body) ==
  Str(i) \o ". From '" \o title \o "':\n   "
    \o (IF Len(body) > 200 THEN SubSeq(body, 1, 200) \o "..." ELSE body)
    \o "\n"

\* The fallback answer over the hits shown.
ExpectedFallbackText(shown, image) ==
  "Based on the course materials I found:\n\n"
    \o Join([i \in 1..Len(shown) |->
               ExpectedExcerpt(i, page_title(shown[i].page), page_content(shown[i].page))],
            "\n")
    \o (IF image # "" THEN "\n" \o ImageNote ELSE "")

ExpectedFallback(hits, image) ==
  IF hits = <<>>
  THEN [answer |-> PyStr("I couldn't find specific information about your question in the course materials. Please try rephrasing your question or check the course resources directly."),
        links |-> <<>>]
  ELSE [answer |-> PyStr(ExpectedFallbackText(SubSeq(hits, 1, Min(3, Len(hits))), image)),
        links |-> [i \in 1..Min(3, Len(hits)) |->
                     [url |-> page_url(hits[i].page), text |-> page_title(hits[i].page)]]]

\* The hits of the fallback path's retrieval, in rank order.
FallbackHits ==
  simple_search(Http.question, FallbackTopK, Rows(contents), LastKeywordSearchRaised)

\* C10: the fallback answer numbers at most 3 hits in rank order, each under
\* its title, a body over 200 characters cut to 200 and "...", a shorter one
\* whole, the links being the url and title of those hits in that order; with
\* no hit it is the 'nothing found' message with no links.
C10_FallbackFormat ==
  (Answered /\ FallbackEntered) =>
    Http.result = ExpectedFallback(FallbackHits, Http.image)

\* A fallback answer showing a body of more than 200 characters, one of
\* exactly 200 and one shorter.
C10_Witness ==
  /\ Answered /\ FallbackEntered
  /\ Len(Http.result.links) = 3
  /\ \E i \in 1..3 : Len(page_content(FallbackHits[i].page)) > 200
  /\ \E i \in 1..3 : Len(page_content(FallbackHits[i].page)) = 200
  /\ \E i \in 1..3 : Len(page_content(FallbackHits[i].page)) < 200

EndsWith(s, suffix) ==
  Len(s) >= Len(suffix) /\ SubSeq(s, Len(s) - Len(suffix) + 1, Len(s)) = suffix

\* C11: a fallback answer to a request that carried an image ends with the
\* note that the image cannot be analysed, whether or not retrieval found a
\* page.
C11_FallbackImageNote ==
  (Answered /\ FallbackEntered /\ Http.image # "") =>
    EndsWith(AnswerText,
             "Note: I can see you've included an image, but I need AI functionality to analyze it. Please describe what's in the image so I can help better.")

\* ------------------------------------------- the ranker and the engine alone

\* Answer texts handed to rank_and_filter_links: one naming no link, one
\* naming a title in lower case, one holding a URL, one holding a title as it
\* is written, and the empty text.
UnitAnswers ==
  {"The dashboard shows the bonus marks.",
   "Look at the ga4 dashboard page.",
   "Check https://tds.example/p3 now.",
   "See Docker Setup.",
   ""}

\* The lists of distinct pages of at most n pages.
PageLists(n) ==
  {s \in UNION {[1..k -> Pages] : k \in 0..n} :
     \A i, j \in 1..Len(s) : i # j => s[i] # s[j]}

NoUnit == [links |-> <<>>, question |-> "", answer |-> "", top_k |-> 0, failed |-> FALSE]

\* A call of rank_and_filter_links(links, question, answer) by itself.
RankLinks ==
  /\ Idle
  /\ \E pages \in PageLists(MaxDocs), question \in UnitQuestions, answer \in UnitAnswers :
       response' =
         [via |-> "rank",
          data |-> [NoUnit EXCEPT !.links = [i \in 1..Len(pages) |-> Link(pages[i])],
                                  !.question = question, !.answer = answer],
          http |-> [scored |-> scored_links([i \in 1..Len(pages) |-> Link(pages[i])],
                                            question, answer),
                    result |-> rank_and_filter_links(
                                 [i \in 1..Len(pages) |-> Link(pages[i])],
                                 question, answer)]]
  /\ UNCHANGED <<contents, openai_client, embedding_available, vector_store, writers>>

InitRank ==
  /\ contents = <<>>
  /\ openai_client = FALSE
  /\ embedding_available = FALSE
  /\ vector_store = NewStore
  /\ response = NoResponse
  /\ writers = NoWriters

NextRank ==
  \/ RankLinks
  \/ Deliver

SpecRank == InitRank /\ [][NextRank]_vars

ViaRank == response.via = "rank"

\* The words of the question, lowercased, as the ranker walks them.
RankedWords == Split(Lower(response.data.question))

\* 1 point for each question word of more than 3 characters found in the
\* title, case put aside.
ExpectedTitlePoints(link) ==
  Cardinality({i \in 1..Len(RankedWords) :
                 /\ Len(RankedWords[i]) > 3
                 /\ Contains(Lower(link.text), RankedWords[i])})

\* The link's URL or its title stands in the answer as it is written.
MentionedVerbatim(link) ==
  \/ Contains(response.data.answer, link.url)
  \/ Contains(response.data.answer, link.text)

\* The link's URL stands in the answer as it is written, or its title does,
\* case put aside.
MentionedCaseFolded(link) ==
  \/ Contains(response.data.answer, link.url)
  \/ Contains(Lower(response.data.answer), Lower(link.text))

\* For the GA4 question and an answer that speaks of the dashboard and the
\* bonus, 'GA4 Dashboard' scores above 'Docker Setup'.
GA4Example ==
  (/\ response.data.question = Q_GA4
   /\ response.data.answer = "The dashboard shows the bonus marks.") =>
    \A i, j \in 1..Len(Http.scored) :
      (/\ Http.scored[i].link.text = "GA4 Dashboard"
       /\ Http.scored[j].link.text = "Docker Setup") =>
        Http.scored[i].score > Http.scored[j].score

\* C12: the score of a candidate link is 1 point per question word of more
\* than 3 characters found in its title (case-insensitive), plus 2 when its
\* URL or its title stands verbatim in the answer, and nothing else.
C12_ScoreVerbatim ==
  ViaRank =>
    /\ \A i \in 1..Len(Http.scored) :
         Http.scored[i].score =
           ExpectedTitlePoints(Http.scored[i].link)
             + (IF MentionedVerbatim(Http.scored[i].link) THEN 2 ELSE 0)
    /\ GA4Example

\* C12 as amended: the 2 points are given when the URL stands verbatim in
\* the answer or the title stands in it case-insensitively.
C12_ScoreCaseFolded ==
  ViaRank =>
    /\ Len(Http.scored) = Len(response.data.links)
    /\ \A i \in 1..Len(Http.scored) :
         /\ Http.scored[i].link = response.data.links[i]
         /\ Http.scored[i].score =
              ExpectedTitlePoints(Http.scored[i].link)
                + (IF MentionedCaseFolded(Http.scored[i].link) THEN 2 ELSE 0)
    /\ GA4Example

\* 'GA4 Dashboard' scoring 3 (the word "dashboard", and its title in lower
\* case in the answer) next to 'Docker Setup' scoring 0.
C12_Witness ==
  /\ ViaRank
  /\ response.data.question = Q_GA4
  /\ response.data.answer = "Look at the ga4 dashboard page."
  /\ \E i, j \in 1..Len(Http.scored) :
       /\ Http.scored[i].link.text = "GA4 Dashboard" /\ Http.scored[i].score = 3
       /\ Http.scored[j].link.text = "Docker Setup" /\ Http.scored[j].score = 0

\* The places of the candidates that score above 0.
KeptPlaces == {i \in 1..Len(Http.scored) : Http.scored[i].score > 0}

\* The place in the result of the kept candidate i: after every kept
\* candidate that scores more, and after the ones before it that score the
\* same.
RankOf(i) ==
  1 + Cardinality({j \in KeptPlaces :
                     \/ Http.scored[j].score > Http.scored[i].score
                     \/ Http.scored[j].score = Http.scored[i].score /\ j < i})

\* C13: rank_and_filter_links returns exactly the candidates scoring above
\* 0, each once, by non-increasing score, two candidates of equal score in
\* their input order; no candidate gives an empty list.
C13_KeptOrdered ==
  ViaRank =>
    /\ Len(Http.result) = Cardinality(KeptPlaces)
    /\ \A i \in KeptPlaces : Http.result[RankOf(i)] = response.data.links[i]
    /\ response.data.links = <<>> => Http.result = <<>>

\* A list from which one candidate is dropped, one is moved ahead of an
\* earlier one, and two of equal score are kept.
C13_Witness ==
  /\ ViaRank
  /\ \E i \in 1..Len(Http.scored) : Http.scored[i].score = 0
  /\ \E i, j \in KeptPlaces : i < j /\ Http.scored[i].score < Http.scored[j].score
  /\ \E i, j \in KeptPlaces : i < j /\ Http.scored[i].score = Http.scored[j].score

\* ----------------------------------------------------- simple_search alone

\* A scraper stores a page not stored yet; the course pages and the forum
\* posts reach the table in any order.
ScrapeContent ==
  /\ Idle
  /\ \E p \in Pages :
       /\ \A i \in 1..Len(contents) : contents[i] # p
       /\ contents' = Append(contents, p)
  /\ UNCHANGED <<openai_client, embedding_available, vector_store, response, writers>>

\* The values of top_k the callers pass (3 and 5), and 1.
TopKs == {1, FallbackTopK, SearchTopK}

\* A call of simple_search(question, top_k) by itself: the score it computes
\* for each row, and the hits it returns.
SimpleSearch ==
  /\ Idle
  /\ \E question \in UnitQuestions, top_k \in TopKs, failed \in BOOLEAN :
       response' =
         [via |-> "search",
          data |-> [NoUnit EXCEPT !.question = question, !.top_k = top_k,
                                  !.failed = failed],
          http |-> [scored |-> IF failed THEN <<>>
                               ELSE scored_rows(question, Rows(contents)),
                    result |-> simple_search(question, top_k, Rows(contents), failed)]]
  /\ UNCHANGED <<contents, openai_client, embedding_available, vector_store, writers>>

NextSearch ==
  \/ ScrapeContent
  \/ SimpleSearch
  \/ Deliver

SpecSearch == InitRank /\ [][NextSearch]_vars

ViaSearch == response.via = "search"

\* The phrase stands in the lowercased question and in the lowercased text.
InBoth(phrase, question, text) ==
  Contains(Lower(question), phrase) /\ Contains(Lower(text), phrase)

ExpectedBonus(question, text) ==
  (IF InBoth("gpt-3.5-turbo", question, text) THEN 20 ELSE 0)
    + (IF InBoth("gpt-4o-mini", question, text) THEN 15 ELSE 0)
    + (IF InBoth("ga4", question, text) THEN 20 ELSE 0)
    + (IF InBoth("dashboard", question, text) THEN 15 ELSE 0)
    + (IF InBoth("bonus", question, text) THEN 15 ELSE 0)
    + (IF InBoth("docker", question, text) THEN 20 ELSE 0)
    + (IF InBoth("podman", question, text) THEN 20 ELSE 0)
    + (IF InBoth("sep 2025", question, text) THEN 20 ELSE 0)
    + (IF InBoth("exam", question, text) THEN 15 ELSE 0)

\* The distinct words of the lowercased question of more than 2 characters.
CountedWords(question) ==
  {w \in {Split(Lower(question))[i] : i \in 1..Len(Split(Lower(question)))} : Len(w) > 2}

RECURSIVE SumOver(_, _, _)
\* The occurrences in text of the words of the set, added up.
SumOver(words, text, acc) ==
  IF words = {} THEN acc
  ELSE SumOver(words \ {CHOOSE w \in words : TRUE}, text,
               acc + Cardinality(Occurrences(text, CHOOSE w \in words : TRUE, 1)))

\* The score the rule gives: 0, the bonuses, and the occurrences.
ExpectedScore(question, text) ==
  0 + ExpectedBonus(question, text) + SumOver(CountedWords(question), Lower(text), 0)

\* ExpectedScore for the questions and the kinds of page, computed once.
ExpectedScoreTable ==
  [question \in UnitQuestions |->
     [t \in 1..5 |-> ExpectedScore(question, TemplateTitle[t] \o " " \o TemplateContent[t])]]

HitOf(i) ==
  [id |-> i, page |-> contents[i], score |-> Http.scored[i].score]

\* C15: simple_search returns only documents scoring above 0, by
\* non-increasing score, documents of equal score in corpus order, the first
\* top_k of that order and no more; an empty corpus, no matching document or
\* a failed read gives the empty list.
C15_HitsOrdered ==
  ViaSearch =>
    /\ Len(Http.result) = Min(response.data.top_k, Cardinality(KeptPlaces))
    /\ \A i \in KeptPlaces :
         RankOf(i) <= response.data.top_k => Http.result[RankOf(i)] = HitOf(i)
    /\ (contents = <<>> \/ KeptPlaces = {} \/ response.data.failed) => Http.result = <<>>

\* More matching documents than top_k: the best one first, then two of
\* equal score in the order they were stored (the later page of the scrapers'
\* lists first), the last one cut off.
C15_Witness ==
  /\ ViaSearch
  /\ response.data.top_k = 3
  /\ Cardinality(KeptPlaces) = 4
  /\ Len(Http.result) = 3
  /\ Http.result[1].score > Http.result[2].score
  /\ Http.result[2].score = Http.result[3].score
  /\ Http.result[2].page > Http.result[3].page
  /\ Http.result[2].id < Http.result[3].id

Bundle == response.bundle

\* The places of the hits whose similarity is above 0.3.
RelevantPlaces == {k \in 1..Len(Bundle.hits) : Bundle.hits[k].score > 30}

\* The place among the entries of the relevant hit k.
EntryOf(k) == Cardinality({j \in RelevantPlaces : j <= k})

\* Title, URL and the first 500 characters of the body.
ExpectedEntry(page) ==
  "Title: " \o page_title(page) \o "\nURL: " \o page_url(page) \o "\nContent: "
    \o SubSeq(page_content(page), 1, Min(500, Len(page_content(page)))) \o "..."

\* C16: the vector-backed composer makes a context entry and a link
\* candidate of a hit exactly when its similarity is above 0.3 (0.30 gives
\* nothing, 0.31 gives both), and an entry holds at most the first 500
\* characters of the body.
C16_ThresholdAndContext ==
  ViaVector =>
    /\ Len(Bundle.context_parts) = Cardinality(RelevantPlaces)
    /\ Len(Bundle.relevant_links) = Cardinality(RelevantPlaces)
    /\ \A k \in RelevantPlaces :
         /\ Bundle.context_parts[EntryOf(k)] = ExpectedEntry(Bundle.hits[k].doc.page)
         /\ Bundle.relevant_links[EntryOf(k)] =
              [url |-> page_url(Bundle.hits[k].doc.page),
               text |-> page_title(Bundle.hits[k].doc.page)]

\* Hits of similarity 0.30 and 0.31: the first gives nothing, the second an
\* entry cut from a body of more than 500 characters.
C16_Witness ==
  /\ ViaVector
  /\ \E k \in 1..Len(Bundle.hits) :
       /\ Bundle.hits[k].score = 30
       /\ \A j \in 1..Len(Bundle.relevant_links) :
            Bundle.relevant_links[j].url # page_url(Bundle.hits[k].doc.page)
  /\ \E k \in RelevantPlaces :
       /\ Bundle.hits[k].score = 31
       /\ Len(page_content(Bundle.hits[k].doc.page)) > 500
       /\ Bundle.relevant_links[EntryOf(k)].url = page_url(Bundle.hits[k].doc.page)
       /\ ~Contains(Bundle.context_parts[EntryOf(k)],
                    page_content(Bundle.hits[k].doc.page))

\* C20: one call of answer_question invokes the generation capability at most
\* once: not at all without a client, and not again after an invocation that
\* failed, neither as a retry nor on the fallback path.
C20_GenerationAtMostOnce ==
  Answered =>
    /\ Cardinality(CallIndexes("generate")) <= 1
    /\ ~openai_client => ~HasCall("generate")
    /\ \A i \in CallIndexes("generate") :
         Http.calls[i].kind = "error" =>
           \A j \in (i + 1)..Len(Http.calls) : Http.calls[j].op # "generate"

\* A quota-class failure followed by the fallback path: one invocation, and
\* the fallback's retrieval after it.
C20_Witness ==
  /\ Answered /\ ViaApi /\ openai_client
  /\ FallbackEntered
  /\ GenerationRaised
  /\ Cardinality(CallIndexes("generate")) = 1
  /\ \E i \in CallIndexes("generate"), j \in CallIndexes("simple_search") : i < j

\* ------------------------------------------------- the vector store alone

\* The longest documents list add_document is followed to.
MaxStored == 3

\* An operation on the store ends: the store it leaves, whether it raised and
\* whether it rebuilt the index from the corpus.
StoreStep(op, args, r) ==
  /\ vector_store' = r.store
  /\ response' = [via |-> op, data |-> args,
                  http |-> [raised |-> r.raised, rebuilt |-> r.rebuilt]]

NoArgs == [load |-> "none", row |-> 0, had_files |-> FALSE]

\* vector_store.create_index()
CreateIndex ==
  /\ Idle
  /\ \E dbfail \in BOOLEAN :
       StoreStep("create_index", NoArgs,
                 create_index(vector_store, Rows(contents), embedding_available, dbfail))
  /\ UNCHANGED <<contents, openai_client, embedding_available, writers>>

\* vector_store.load_or_create_index()
LoadOrCreateIndex ==
  /\ Idle
  /\ \E dbfail \in BOOLEAN, load \in LoadOutcomes :
       StoreStep("load_or_create_index",
                 [NoArgs EXCEPT !.load = load,
                                !.had_files = vector_store.index_file.exists
                                                /\ vector_store.docs_file.exists],
                 load_or_create_index(vector_store, Rows(contents), embedding_available,
                                      dbfail, load))
  /\ UNCHANGED <<contents, openai_client, embedding_available, writers>>

\* vector_store.add_document(content) for the newest row of the table.
AddDocument ==
  /\ Idle
  /\ Len(contents) > 0
  /\ Len(vector_store.documents) < MaxStored
  /\ Len(vector_store.index_file.data) < MaxStored
  /\ \E dbfail \in BOOLEAN, load \in LoadOutcomes :
       StoreStep("add_document", [NoArgs EXCEPT !.load = load, !.row = Len(contents)],
                 add_document(vector_store, Rows(contents)[Len(contents)], Rows(contents),
                              embedding_available, dbfail, load))
  /\ UNCHANGED <<contents, openai_client, embedding_available, writers>>

\* The process starts again and makes a new VectorStore.
Restart ==
  /\ Idle
  /\ vector_store' = restarted(vector_store)
  /\ vector_store' # vector_store
  /\ UNCHANGED <<contents, openai_client, embedding_available, response, writers>>

\* vector_store.search(query, top_k)
VectorSearch ==
  /\ Idle
  /\ \E query \in Questions, top_k \in TopKs :
       response' = [via |-> "vector_search",
                    data |-> [query |-> query, top_k |-> top_k],
                    http |-> vector_search(vector_store, query, top_k,
                                           embedding_available)]
  /\ UNCHANGED <<contents, openai_client, embedding_available, vector_store, writers>>

InitStore ==
  /\ contents = <<>>
  /\ openai_client = FALSE
  /\ embedding_available = TRUE
  /\ vector_store = NewStore
  /\ response = NoResponse
  /\ writers = NoWriters

NextStore ==
  \/ InsertContent
  \/ SetEmbedding
  \/ CreateIndex
  \/ LoadOrCreateIndex
  \/ AddDocument
  \/ Restart
  \/ VectorSearch
  \/ Deliver

SpecStore == InitStore /\ [][NextStore]_vars

\* ------------------------------------------ properties of the vector store

StoreOps == {"create_index", "load_or_create_index", "add_document"}

\* The step ends an operation on the store that raised.
Aborted(r) == r.via \in StoreOps /\ r.http.raised

\* The step ends an operation on the store that returned.
Completed(r) == r.via \in StoreOps /\ ~r.http.raised

\* Position i of the vectors is the embedding of position i of the documents.
Aligned(vectors, documents) ==
  /\ Len(vectors) = Len(documents)
  /\ \A i \in 1..Len(documents) :
       vectors[i] = [emb |-> TemplateTitle[Template(documents[i].page)] \o "\n"
                               \o TemplateContent[Template(documents[i].page)]]

StoreConsistent ==
  /\ Aligned(vector_store.index.vectors, vector_store.documents)
  /\ (vector_store.index_file.exists /\ vector_store.docs_file.exists
        => Aligned(vector_store.index_file.data, vector_store.docs_file.data))

\* C17: a new store has as many vectors as documents, in memory and in its
\* files, vector i being the embedding of documents[i], and every step that is
\* not an operation cut short by an exception keeps it so: create_index,
\* load_or_create_index and add_document when they return, a restart, a
\* search, a change of the table.
C17_StoreStaysAligned ==
  /\ StoreConsistent
  /\ [][(StoreConsistent /\ ~Aborted(response')) => StoreConsistent']_vars

\* C17: add_document returned on a store of a build, the store and its files
\* hold two documents or more of different pages.
C17_Witness ==
  /\ Completed(response)
  /\ response.via = "add_document"
  /\ ~response.http.rebuilt
  /\ Len(vector_store.documents) >= 2
  /\ vector_store.documents[1].page # vector_store.documents[Len(vector_store.documents)].page
  /\ vector_store.docs_file.data = vector_store.documents
  /\ vector_store.index_file.data = vector_store.index.vectors
  /\ StoreConsistent

\* What load_or_create_index has done when the step ends it.
Loaded(r) == r.via = "load_or_create_index"

\* The store a process has in memory when it holds what the files hold.
Persisted(store) ==
  [store EXCEPT !.index = [built |-> TRUE, vectors |-> store.index_file.data],
                !.documents = store.docs_file.data]

ExpectedSnapshots(table) == [i \in 1..Len(table) |-> [id |-> i, page |-> table[i]]]

\* The composer's search returns from both stores the same hits in the same
\* order.
SameHits(a, b) ==
  \A query \in Questions :
    vector_search(a, query, SearchTopK, TRUE) = vector_search(b, query, SearchTopK, TRUE)

ViaVectorSearch == response.via = "vector_search"

\* The similarity the hit reports is the one of its document to the query.
ExpectedSimilarity(query, doc) ==
  IF query = TemplateTitle[Template(doc.page)] \o "\n" \o TemplateContent[Template(doc.page)]
  THEN 100
  ELSE SimilarityTable(query)[Template(doc.page)]

\* C19: search returns exactly min(top_k, number of documents) hits, each a
\* document of the snapshot with its similarity to the query and none made of
\* the place of no match; with no index or no documents it returns no hit,
\* does not call the embedding model and does not raise.
C19_SearchHitCount ==
  ViaVectorSearch =>
    IF ~vector_store.index.built \/ Len(vector_store.documents) = 0
    THEN /\ ~response.http.raised
         /\ ~response.http.encoded
         /\ response.http.hits = <<>>
    ELSE embedding_available =>
           /\ ~response.http.raised
           /\ Len(response.http.hits)
                = Min(response.data.top_k, Len(vector_store.documents))
           /\ \A i \in 1..Len(response.http.hits) :
                /\ \E j \in 1..Len(vector_store.documents) :
                     response.http.hits[i].doc = vector_store.documents[j]
                /\ response.http.hits[i].score
                     = ExpectedSimilarity(response.data.query, response.http.hits[i].doc)

\* No id occurs at two places of the documents.
DistinctIds(documents) ==
  \A i, j \in 1..Len(documents) : documents[i].id = documents[j].id => i = j

\* The store of a process that has done nothing yet, no file written.
Untouched(store) ==
  /\ ~store.index.built
  /\ store.documents = <<>>
  /\ ~store.index_file.exists
  /\ ~store.docs_file.exists

\* C23: when add_document is the first operation on a store whose index is not
\* initialized and that has no files, the document being a row of the table,
\* it returns with every id at most once in the documents and one vector per
\* document.
C23_FirstAddKeepsIdsDistinct ==
  [][(/\ Untouched(vector_store)
      /\ response'.via = "add_document"
      /\ ~response'.http.raised)
       => /\ DistinctIds(vector_store'.documents)
          /\ Len(vector_store'.index.vectors) = Len(vector_store'.documents)]_vars

\* ------------------------------------------- add_document, statement by
\* statement

\* What add_document has to run next.
AddPcs == {"index_add", "documents_append", "write_index", "write_docs"}

\* The calls followed do not make the lists longer than MaxStored.
RoomToAdd(store) ==
  /\ Len(store.documents) < MaxStored
  /\ Len(store.index.vectors) < MaxStored
  /\ Len(store.index_file.data) < MaxStored
  /\ Len(store.docs_file.data) < MaxStored

\* What a thread needs to hold before it runs add_document: the store has no
\* lock, a call enters whatever the other threads are doing.
may_enter_locked(ws, w) == \A v \in WriterNames : ws[v].pc = "idle"

may_enter(ws, w) == ws[w].pc = "idle"

\* add_document(content) up to the embedding of the text: the index loaded or
\* built when there is none, then model.encode.
AddStart(w) ==
  /\ Idle
  /\ may_enter(writers, w)
  /\ RoomToAdd(vector_store)
  /\ \E i \in 1..Len(contents), load \in LoadOutcomes :
       LET loaded == loaded_for_add(vector_store, Rows(contents),
                                    embedding_available, FALSE, load)
       IN /\ vector_store' = loaded.store
          /\ writers' = IF loaded.raised \/ ~embedding_available THEN writers
                        ELSE [writers EXCEPT ![w] = [pc |-> "index_add", row |-> i]]
  /\ UNCHANGED <<contents, openai_client, embedding_available, response>>

\* The statements of add_document with the two files written in one step.
after_statement_atomic(store, pc, row) ==
  CASE pc = "index_add" ->
         [store EXCEPT !.index = IndexOf(Append(store.index.vectors,
                                                encode(document_text(row.page))))]
    [] pc = "documents_append" ->
         [store EXCEPT !.documents = Append(store.documents, Snapshot(row))]
    [] pc = "write_index" ->
         [store EXCEPT !.index_file = FileOf(store.index.vectors),
                       !.docs_file = FileOf(store.documents)]
    [] pc = "write_docs" -> store

\* The statement of add_document the thread runs next, on the store as it is.
after_statement(store, pc, row) ==
  CASE pc = "index_add" ->
         [store EXCEPT !.index = IndexOf(Append(store.index.vectors,
                                                encode(document_text(row.page))))]
    [] pc = "documents_append" ->
         [store EXCEPT !.documents = Append(store.documents, Snapshot(row))]
    [] pc = "write_index" ->
         [store EXCEPT !.index_file = FileOf(store.index.vectors)]
    [] pc = "write_docs" ->
         [store EXCEPT !.docs_file = FileOf(store.documents)]

next_pc(pc) ==
  CASE pc = "index_add" -> "documents_append"
    [] pc = "documents_append" -> "write_index"
    [] pc = "write_index" -> "write_docs"
    [] pc = "write_docs" -> "idle"

\* One statement of the call of thread w: index.add, documents.append,
\* write_index, pickle.dump.
AddStatement(w) ==
  /\ Idle
  /\ writers[w].pc \in AddPcs
  /\ vector_store' = after_statement(vector_store, writers[w].pc,
                                     Rows(contents)[writers[w].row])
  /\ writers' = [writers EXCEPT ![w] =
                   IF next_pc(writers[w].pc) = "idle" THEN NoCall
                   ELSE [writers[w] EXCEPT !.pc = next_pc(writers[w].pc)]]
  /\ UNCHANGED <<contents, openai_client, embedding_available, response>>

\* Two threads call add_document on the one store of a new process.
NextWriters ==
  \/ InsertContent
  \/ \E w \in WriterNames : AddStart(w)
  \/ \E w \in WriterNames : AddStatement(w)

SpecWriters == InitStore /\ [][NextWriters]_vars

\* No call of add_document is under way.
Quiet == \A w \in WriterNames : writers[w].pc = "idle"

\* The process dies while thread w is inside add_document: what it held in
\* memory is gone, the files stay as they are, and the next process starts
\* with a new VectorStore.
Crash(w) ==
  /\ Idle
  /\ writers[w].pc \in AddPcs
  /\ vector_store' = restarted(vector_store)
  /\ writers' = NoWriters
  /\ response' = [via |-> "crash", data |-> [NoArgs EXCEPT !.row = writers[w].row],
                  http |-> [raised |-> TRUE, rebuilt |-> FALSE, pc |-> writers[w].pc]]
  /\ UNCHANGED <<contents, openai_client, embedding_available>>

\* vector_store.load_or_create_index() while no call of add_document is under
\* way, the table read without error.
LoadFiles ==
  /\ Idle
  /\ Quiet
  /\ \E load \in LoadOutcomes :
       StoreStep("load_or_create_index",
                 [NoArgs EXCEPT !.load = load,
                                !.had_files = vector_store.index_file.exists
                                                /\ vector_store.docs_file.exists],
                 load_or_create_index(vector_store, Rows(contents), embedding_available,
                                      FALSE, load))
  /\ UNCHANGED <<contents, openai_client, embedding_available, writers>>

\* One thread calls add_document, load_or_create_index and search, one call
\* at a time, and the process may die inside add_document.
NextCrash ==
  \/ InsertContent
  \/ LoadFiles
  \/ AddStart("w1")
  \/ AddStatement("w1")
  \/ Crash("w1")
  \/ (Quiet /\ VectorSearch)
  \/ Deliver

SpecCrash == InitStore /\ [][NextCrash]_vars

\* ------------------------------------- properties of concurrent add_document

\* A call of add_document is under way in the thread.
InCall(w) == writers[w].pc \in AddPcs

\* Place i of the vectors is the embedding of a document other than the one at
\* place i of the documents.
Mispaired(vectors, documents) ==
  \E i \in 1..Len(documents) :
    /\ i <= Len(vectors)
    /\ vectors[i] # [emb |-> TemplateTitle[Template(documents[i].page)] \o "\n"
                               \o TemplateContent[Template(documents[i].page)]]
    /\ \E j \in 1..Len(documents) :
         vectors[i] = [emb |-> TemplateTitle[Template(documents[j].page)] \o "\n"
                                 \o TemplateContent[Template(documents[j].page)]]

\* C21: the store does nothing to serialize writers: a thread outside
\* add_document can enter it whatever the other thread is doing (a row to add
\* and room in the lists being there), and a thread inside can run its next
\* statement, index.add, documents.append or either file write, wherever the
\* other thread stands.
C21_WritersNotSerialized ==
  \A w \in WriterNames :
    /\ (InCall(w) => ENABLED AddStatement(w))
    /\ (~InCall(w) /\ Len(contents) > 0 /\ RoomToAdd(vector_store)
          => ENABLED AddStart(w))

\* C21: two calls have interleaved and both have returned: a place of the
\* index holds the vector of one document while documents holds another one
\* there, in memory and in the two files.
C21_Witness ==
  /\ \A w \in WriterNames : ~InCall(w)
  /\ Len(vector_store.index.vectors) = Len(vector_store.documents)
  /\ Mispaired(vector_store.index.vectors, vector_store.documents)
  /\ vector_store.index_file.exists
  /\ vector_store.docs_file.exists
  /\ Mispaired(vector_store.index_file.data, vector_store.docs_file.data)

\* ------------------------------------ properties of a crash in add_document

\* The step is the process dying after write_index and before the snapshot is
\* written.
CrashedBetweenWrites(r) == r.via = "crash" /\ r.http.pc = "write_docs"

\* The index file is there and the snapshot file is not its counterpart: it
\* is missing, or does not hold the documents of the index file's vectors.
FilesDisagree(store) ==
  /\ store.index_file.exists
  /\ ~(store.docs_file.exists /\ Aligned(store.index_file.data, store.docs_file.data))

\* The hit pairs a document with a similarity that is not its own.
MismatchedHit(query, hit) == hit.score # ExpectedSimilarity(query, hit.doc)

====
